---- MODULE Spec2Model ----
(***************************************************************************)
(* Model of kube-op: a read-only cluster introspection tool.               *)
(*                                                                         *)
(*   NewClientFromKubeconfig   kubeconfig resolution and client creation   *)
(*   GetKubernetesAPIServerVersion, GetEtcdVersion, GetNodeVersions,       *)
(*   GetExposedEndpoints       the four query-and-summarize operations     *)
(*   main                      the orchestrator                            *)
(*                                                                         *)
(* Strings whose content the code inspects (image references, kubelet      *)
(* versions and the joined version list) are sequences of one-character    *)
(* strings, so that strings.Contains, strings.Split and strings.Join are   *)
(* modelled by what they do.  Strings the code only copies (names, hosts,  *)
(* addresses) are atomic.  A Go (value, error) pair is a record            *)
(* [val, err]; the nil error is NoErr.                                     *)
(***************************************************************************)
EXTENDS Integers, Sequences, FiniteSets, TLC

VARIABLES
    env,        \* process environment: KUBECONFIG, HOME, files on disk, in-cluster credentials
    version,    \* the control plane's answer to Discovery().ServerVersion()
    pods,       \* the answer to Pods("kube-system").List(component=etcd)
    nodes,      \* the answer to Nodes().List()
    services,   \* the answer to Services("").List()
    ingresses,  \* the answer to Ingresses("").List()
    pc,         \* position of the function (or of main) under study
    ret,        \* what the function under study returned
    endpoints,  \* the local variable `endpoints` of GetExposedEndpoints
    calls,      \* main: the operations invoked so far, in order
    out         \* main: the messages written so far, in order

vars == <<env, version, pods, nodes, services, ingresses, pc, ret, endpoints, calls, out>>

----------------------------------------------------------------------------
(* Bounds of the model *)

MaxContainers == 2
MaxPods == 2
MaxNodes == 3
MaxServices == 2
MaxIngresses == 2

SeqsUpTo(S, n) == UNION {[1..k -> S] : k \in 0..n}

----------------------------------------------------------------------------
(* Go values *)

NoErr == [msg |-> "nil", arg |-> "", cause |-> "nil"]

Errorf(msg, arg, cause) == [msg |-> msg, arg |-> arg, cause |-> cause]

NilClient == "nil"

NoRet == [val |-> "none", err |-> NoErr]

----------------------------------------------------------------------------
(* package strings, on sequences of characters *)

\* strings.Index: the first position where sub occurs in s, 0 when it does not
Index(s, sub) ==
    LET hits == {i \in 1..(Len(s) - Len(sub) + 1) : SubSeq(s, i, i + Len(sub) - 1) = sub}
    IN IF hits = {} THEN 0 ELSE CHOOSE i \in hits : \A j \in hits : i <= j

Contains(s, sub) == Index(s, sub) # 0

RECURSIVE Split(_, _)
\* strings.Split with a non-empty separator
Split(s, sep) ==
    LET i == Index(s, sep)
    IN IF i = 0 THEN <<s>>
       ELSE <<SubSeq(s, 1, i - 1)>> \o Split(SubSeq(s, i + Len(sep), Len(s)), sep)

RECURSIVE Join(_, _)
Join(elems, sep) ==
    IF Len(elems) = 0 THEN <<>>
    ELSE IF Len(elems) = 1 THEN elems[1]
    ELSE elems[1] \o sep \o Join(Tail(elems), sep)

----------------------------------------------------------------------------
(* NewClientFromKubeconfig *)

KubeconfigPaths == {"/tmp/config"}
HomeDirs == {"/home/op"}

\* filepath.Join(home, ".kube", "config")
HomeKubeconfig(home) == IF home = "/home/op" THEN "/home/op/.kube/config" ELSE "<none>"

ConfigFiles == KubeconfigPaths \cup {HomeKubeconfig(h) : h \in HomeDirs}

\* what a path holds: a kubeconfig that loads and yields a client ("valid"),
\* one that does not load ("invalid", e.g. empty), one that loads into a
\* configuration the client constructor rejects ("unusable"), or nothing
FileKinds == {"valid", "invalid", "unusable", "missing"}

Envs == [KUBECONFIG : KubeconfigPaths \cup {""},
         HOME : HomeDirs \cup {""},
         files : [ConfigFiles -> FileKinds],
         inCluster : BOOLEAN]

\* mutant: the home-directory default wins over the environment variable
ResolveKubeconfig_HomeFirst(e) ==
    IF e.HOME # "" THEN HomeKubeconfig(e.HOME)
    ELSE IF e.KUBECONFIG # "" THEN e.KUBECONFIG
    ELSE ""

\* the kubeconfig path the function resolves
ResolveKubeconfig(e) ==
    IF e.KUBECONFIG # "" THEN e.KUBECONFIG
    ELSE IF e.HOME # "" THEN HomeKubeconfig(e.HOME)
    ELSE ""

\* clientcmd.BuildConfigFromFlags("", kubeconfig): with no path the library
\* tries the in-cluster configuration and then an empty default, which fails
BuildConfigFromFlags(e, kubeconfig) ==
    IF kubeconfig = ""
    THEN IF e.inCluster THEN [val |-> "valid", err |-> NoErr]
         ELSE [val |-> "nil", err |-> Errorf("invalid configuration: no configuration has been provided", "", "nil")]
    ELSE IF e.files[kubeconfig] \in {"valid", "unusable"}
         THEN [val |-> e.files[kubeconfig], err |-> NoErr]
         ELSE [val |-> "nil", err |-> Errorf("cannot load kubeconfig", kubeconfig, "nil")]

\* kubernetes.NewForConfig(config)
NewForConfig(config) ==
    IF config = "valid" THEN [val |-> "clientset", err |-> NoErr]
    ELSE [val |-> NilClient, err |-> Errorf("cannot create clientset", "", "nil")]

NewClientFromKubeconfig(e) ==
    LET config == BuildConfigFromFlags(e, ResolveKubeconfig(e))
    IN IF config.err # NoErr THEN [val |-> NilClient, err |-> config.err]
       ELSE LET clientset == NewForConfig(config.val)
            IN IF clientset.err # NoErr THEN [val |-> NilClient, err |-> clientset.err]
               ELSE [val |-> clientset.val, err |-> NoErr]

----------------------------------------------------------------------------
(* GetKubernetesAPIServerVersion *)

VersionResponses == {[GitVersion |-> "v1.29.0", err |-> NoErr],
                     [GitVersion |-> "", err |-> Errorf("connection refused", "", "nil")]}

GetKubernetesAPIServerVersion(resp) ==
    IF resp.err # NoErr
    THEN [val |-> "", err |-> Errorf("failed to get server version", "", resp.err.msg)]
    ELSE [val |-> resp.GitVersion, err |-> NoErr]

----------------------------------------------------------------------------
(* GetEtcdVersion *)

EtcdSubstr == <<"e", "t", "c", "d">>
Colon == <<":">>

\* image references: etcd:3.5  etcd  r:5/etcd:3.5  etcd:  ngx:1.2  ngx  etc:d
Images == {
    <<"e", "t", "c", "d", ":", "3", ".", "5">>,
    <<"e", "t", "c", "d">>,
    <<"r", ":", "5", "/", "e", "t", "c", "d", ":", "3", ".", "5">>,
    <<"e", "t", "c", "d", ":">>,
    <<"n", "g", "x", ":", "1", ".", "2">>,
    <<"n", "g", "x">>,
    <<"e", "t", "c", ":", "d">> }

Container(image) == [Image |-> image]

FirstPods == [Name : {"etcd-a"}, Containers : SeqsUpTo({Container(i) : i \in Images}, MaxContainers)]

\* the replicas listed after the first pod
OtherPods == {[Name |-> "etcd-b", Containers |-> <<Container(<<"e", "t", "c", "d", ":", "3", ".", "4">>)>>],
              [Name |-> "etcd-c", Containers |-> <<Container(<<"n", "g", "x">>)>>]}

PodItems == {<<>>} \cup {<<p>> \o rest : p \in FirstPods, rest \in SeqsUpTo(OtherPods, MaxPods - 1)}

ListFailure == [Items |-> <<>>, err |-> Errorf("connection refused", "", "nil")]

PodResponses == {[Items |-> items, err |-> NoErr] : items \in PodItems} \cup {ListFailure}

\* mutant: the tag is what follows the first colon
ImageVersion_FirstColon(image) ==
    LET imageParts == Split(image, Colon)
    IN IF Len(imageParts) > 1
       THEN [val |-> imageParts[2], err |-> NoErr]
       ELSE [val |-> <<>>, err |-> Errorf("etcd container image does not have a discernible version tag", "", "nil")]

\* the body of the loop for a container whose image matches
ImageVersion(image) ==
    LET imageParts == Split(image, Colon)
    IN IF Len(imageParts) > 1
       THEN [val |-> imageParts[Len(imageParts)], err |-> NoErr]
       ELSE [val |-> <<>>, err |-> Errorf("etcd container image does not have a discernible version tag", "", "nil")]

RECURSIVE ScanContainers(_, _)
\* the loop over etcdPod.Spec.Containers, from container i on
ScanContainers(pod, i) ==
    IF i > Len(pod.Containers)
    THEN [val |-> <<>>, err |-> Errorf("could not find etcd container in pod", pod.Name, "nil")]
    ELSE IF Contains(pod.Containers[i].Image, EtcdSubstr)
         THEN ImageVersion(pod.Containers[i].Image)
         ELSE ScanContainers(pod, i + 1)

GetEtcdVersion(resp) ==
    IF resp.err # NoErr
    THEN [val |-> <<>>, err |-> Errorf("failed to list etcd pods", "", resp.err.msg)]
    ELSE IF Len(resp.Items) = 0
         THEN [val |-> <<>>, err |-> Errorf("no etcd pods found in kube-system namespace", "", "nil")]
         ELSE ScanContainers(resp.Items[1], 1)

----------------------------------------------------------------------------
(* GetNodeVersions *)

CommaSpace == <<",", " ">>

\* kubelet versions: the empty string (a node that has not reported yet), v1.2, v1.3, v2
KubeletVersions == {<<>>, <<"v", "1", ".", "2">>, <<"v", "1", ".", "3">>, <<"v", "2">>}

Node(v) == [KubeletVersion |-> v]

NodeResponses == {[Items |-> items, err |-> NoErr] : items \in SeqsUpTo({Node(v) : v \in KubeletVersions}, MaxNodes)}
                     \cup {ListFailure}

\* the orders in which a range over a map with key set S may deliver the keys
MapOrders(S) == {o \in [1..Cardinality(S) -> S] : \A i, j \in 1..Cardinality(S) : o[i] = o[j] => i = j}

\* mutant: every node's version is appended, without the map
CollectVersions_NoDedup(items) == {[i \in 1..Len(items) |-> items[i].KubeletVersion]}

\* the slices `versions` the two loops can build: the keys of uniqueVersions in any order
CollectVersions(items) == MapOrders({items[i].KubeletVersion : i \in 1..Len(items)})

\* the set of results the call may return (map iteration order is unspecified)
GetNodeVersions(resp) ==
    IF resp.err # NoErr
    THEN {[val |-> <<>>, err |-> Errorf("failed to list nodes", "", resp.err.msg)]}
    ELSE IF Len(resp.Items) = 0
         THEN {[val |-> <<>>, err |-> Errorf("no nodes found in the cluster", "", "nil")]}
         ELSE {[val |-> Join(versions, CommaSpace), err |-> NoErr] : versions \in CollectVersions(resp.Items)}

----------------------------------------------------------------------------
(* GetExposedEndpoints *)

\* status.loadBalancer.ingress points
NoPoint == [IP |-> "", Hostname |-> ""]
IPPoint == [IP |-> "1.2.3.4", Hostname |-> ""]
HostPoint == [IP |-> "", Hostname |-> "lb.example.com"]
BothPoint == [IP |-> "5.6.7.8", Hostname |-> "both.example.com"]

LBStatuses == {<<>>, <<NoPoint>>, <<IPPoint>>, <<HostPoint>>, <<BothPoint>>,
               <<NoPoint, NoPoint>>, <<NoPoint, HostPoint>>, <<HostPoint, IPPoint>>}

HTTPPort == [Port |-> 80, NodePort |-> 30080, Protocol |-> "TCP"]
DNSPort == [Port |-> 53, NodePort |-> 30053, Protocol |-> "UDP"]

ServiceShapes ==
    [Type : {"LoadBalancer"}, Status : LBStatuses, Ports : {<<HTTPPort>>}]
    \cup [Type : {"LoadBalancer"}, Status : {<<>>, <<IPPoint>>}, Ports : {<<>>}]
    \cup [Type : {"NodePort"}, Status : {<<>>, <<NoPoint>>, <<IPPoint>>}, Ports : {<<>>, <<HTTPPort, DNSPort>>}]
    \cup [Type : {"ClusterIP", "ExternalName"}, Status : {<<>>, <<IPPoint>>}, Ports : {<<HTTPPort>>}]

\* a listing names its objects: the i-th object of a listing is called i
Named(shapes) == [i \in 1..Len(shapes) |-> [Name |-> i, Namespace |-> "default", Spec |-> shapes[i]]]

ServiceItems == {Named(shapes) : shapes \in SeqsUpTo(ServiceShapes, MaxServices)}

ServiceBackend == [Service |-> [nil |-> FALSE, Name |-> "api-svc", Number |-> 8080]]
OtherServiceBackend == [Service |-> [nil |-> FALSE, Name |-> "web-svc", Number |-> 80]]
\* a backend that designates a resource: its Service pointer is nil
ResourceBackend == [Service |-> [nil |-> TRUE, Name |-> "", Number |-> 0]]

RootPath == [Path |-> "/", Backend |-> ServiceBackend]
WebPath == [Path |-> "/web", Backend |-> OtherServiceBackend]
BucketPath == [Path |-> "/static", Backend |-> ResourceBackend]

NilHTTP == [nil |-> TRUE, Paths |-> <<>>]
HTTP(paths) == [nil |-> FALSE, Paths |-> paths]

HTTPValues == {NilHTTP, HTTP(<<>>), HTTP(<<RootPath>>), HTTP(<<BucketPath>>), HTTP(<<RootPath, WebPath>>)}

Rules == [Host : {"", "api.example.com"}, HTTP : HTTPValues]

RuleLists == {<<>>} \cup {<<r>> : r \in Rules}
                 \cup {<<[Host |-> "", HTTP |-> h1], [Host |-> "api.example.com", HTTP |-> h2]>> :
                          h1, h2 \in {HTTP(<<RootPath>>), HTTP(<<RootPath, WebPath>>)}}

IngressShapes == [Rules : RuleLists, Status : {<<>>, <<NoPoint, HostPoint>>}]

IngressItems == {Named(shapes) : shapes \in SeqsUpTo(IngressShapes, MaxIngresses)}

ServiceResponses == {[Items |-> items, err |-> NoErr] : items \in ServiceItems} \cup {ListFailure}

IngressResponses == {[Items |-> items, err |-> NoErr] : items \in IngressItems} \cup {ListFailure}

\* a rendered endpoint line: the format used (kind, external) and its arguments
Endpoint(kind, obj, host, path, backend, addrs, ports) ==
    [kind |-> kind, Namespace |-> obj.Namespace, Name |-> obj.Name, Host |-> host, Path |-> path,
     Backend |-> backend, external |-> Len(addrs) > 0, addrs |-> addrs, ports |-> ports]

NoBackend == [Name |-> "", Number |-> 0]

RECURSIVE LoadBalancerAddrs_HostnameFirst(_)
\* mutant: the hostname is preferred over the IP
LoadBalancerAddrs_HostnameFirst(points) ==
    IF Len(points) = 0 THEN <<>>
    ELSE (IF Head(points).Hostname # "" THEN <<Head(points).Hostname>>
          ELSE IF Head(points).IP # "" THEN <<Head(points).IP>>
          ELSE <<>>) \o LoadBalancerAddrs_HostnameFirst(Tail(points))

RECURSIVE LoadBalancerAddrs(_)
\* the loop that fills lbIPs
LoadBalancerAddrs(points) ==
    IF Len(points) = 0 THEN <<>>
    ELSE (IF Head(points).IP # "" THEN <<Head(points).IP>>
          ELSE IF Head(points).Hostname # "" THEN <<Head(points).Hostname>>
          ELSE <<>>) \o LoadBalancerAddrs(Tail(points))

\* portStrings of a LoadBalancer service: "%d/%s"
LoadBalancerPorts(ports) ==
    [i \in 1..Len(ports) |-> [fmt |-> "%d/%s", Port |-> ports[i].Port, NodePort |-> 0, Protocol |-> ports[i].Protocol]]

\* portStrings of a NodePort service: "%d:%d/%s"
NodePortPorts(ports) ==
    [i \in 1..Len(ports) |-> [fmt |-> "%d:%d/%s", Port |-> ports[i].Port, NodePort |-> ports[i].NodePort,
                              Protocol |-> ports[i].Protocol]]

\* mutant: a NodePort service is reported only once it has an external address
ServiceEndpoint_NodePortNeedsAddr(svc) ==
    IF svc.Spec.Type = "LoadBalancer" \/ svc.Spec.Type = "NodePort"
    THEN LET lbIPs == LoadBalancerAddrs(svc.Spec.Status)
         IN IF Len(lbIPs) > 0
            THEN IF svc.Spec.Type = "LoadBalancer"
                 THEN <<Endpoint("Service (LoadBalancer)", svc, "", "", NoBackend, lbIPs, LoadBalancerPorts(svc.Spec.Ports))>>
                 ELSE <<Endpoint("Service (NodePort)", svc, "", "", NoBackend, <<>>, NodePortPorts(svc.Spec.Ports))>>
            ELSE <<>>
    ELSE <<>>

\* the switch on svc.Spec.Type: the records one service appends to endpoints
ServiceEndpoint(svc) ==
    IF svc.Spec.Type = "LoadBalancer"
    THEN LET lbIPs == LoadBalancerAddrs(svc.Spec.Status)
         IN IF Len(lbIPs) > 0
            THEN <<Endpoint("Service (LoadBalancer)", svc, "", "", NoBackend, lbIPs, LoadBalancerPorts(svc.Spec.Ports))>>
            ELSE <<>>
    ELSE IF svc.Spec.Type = "NodePort"
         THEN <<Endpoint("Service (NodePort)", svc, "", "", NoBackend, <<>>, NodePortPorts(svc.Spec.Ports))>>
         ELSE <<>>

RECURSIVE ServiceEndpoints(_)
\* the loop over services.Items
ServiceEndpoints(items) ==
    IF Len(items) = 0 THEN <<>>
    ELSE ServiceEndpoint(Head(items)) \o ServiceEndpoints(Tail(items))

RECURSIVE IngressStatusAddrs(_)
\* the loop that fills ingStatusIPs
IngressStatusAddrs(points) ==
    IF Len(points) = 0 THEN <<>>
    ELSE (IF Head(points).IP # "" THEN <<Head(points).IP>>
          ELSE IF Head(points).Hostname # "" THEN <<Head(points).Hostname>>
          ELSE <<>>) \o IngressStatusAddrs(Tail(points))

\* host := rule.Host, "*" when empty
RuleHost(rule) == IF rule.Host = "" THEN "*" ELSE rule.Host

\* the loops below return [panic, endpoints]: whether a nil pointer was
\* dereferenced, and the value of `endpoints` when the loop stopped

RECURSIVE PathsLoop(_, _, _, _)
\* the loop over rule.HTTP.Paths; path.Backend.Service is dereferenced unchecked
PathsLoop(ing, host, paths, acc) ==
    IF Len(paths) = 0 THEN [panic |-> FALSE, endpoints |-> acc]
    ELSE LET path == Head(paths)
         IN IF path.Backend.Service.nil
            THEN [panic |-> TRUE, endpoints |-> acc]
            ELSE PathsLoop(ing, host, Tail(paths),
                           Append(acc, Endpoint("Ingress", ing, host, path.Path,
                                                [Name |-> path.Backend.Service.Name,
                                                 Number |-> path.Backend.Service.Number],
                                                IngressStatusAddrs(ing.Spec.Status), <<>>)))

RECURSIVE RulesLoop(_, _, _)
\* the loop over ing.Spec.Rules
RulesLoop(ing, rules, acc) ==
    IF Len(rules) = 0 THEN [panic |-> FALSE, endpoints |-> acc]
    ELSE LET rule == Head(rules)
             r == IF rule.HTTP.nil THEN [panic |-> FALSE, endpoints |-> acc]
                  ELSE PathsLoop(ing, RuleHost(rule), rule.HTTP.Paths, acc)
         IN IF r.panic THEN r ELSE RulesLoop(ing, Tail(rules), r.endpoints)

RECURSIVE IngressLoop(_, _)
\* the loop over ingresses.Items
IngressLoop(items, acc) ==
    IF Len(items) = 0 THEN [panic |-> FALSE, endpoints |-> acc]
    ELSE LET r == RulesLoop(Head(items), Head(items).Spec.Rules, acc)
         IN IF r.panic THEN r ELSE IngressLoop(Tail(items), r.endpoints)

\* the whole call: [outcome, val, err], outcome "panic" when it never returns
GetExposedEndpoints(svcResp, ingResp) ==
    IF svcResp.err # NoErr
    THEN [outcome |-> "returned", val |-> <<>>, err |-> Errorf("failed to list services", "", svcResp.err.msg)]
    ELSE IF ingResp.err # NoErr
         THEN [outcome |-> "returned", val |-> <<>>, err |-> Errorf("failed to list ingresses", "", ingResp.err.msg)]
         ELSE LET r == IngressLoop(ingResp.Items, ServiceEndpoints(svcResp.Items))
              IN IF r.panic THEN [outcome |-> "panic", val |-> <<>>, err |-> NoErr]
                 ELSE [outcome |-> "returned", val |-> r.endpoints, err |-> NoErr]

----------------------------------------------------------------------------
(* The cluster and the environment when only one function is under study *)

NoEnv == [KUBECONFIG |-> "", HOME |-> "", files |-> [f \in ConfigFiles |-> "missing"], inCluster |-> FALSE]
NoVersion == [GitVersion |-> "", err |-> NoErr]
NoItems == [Items |-> <<>>, err |-> NoErr]

Idle == /\ endpoints = <<>>
        /\ calls = <<>>
        /\ out = <<>>
        /\ ret = NoRet

----------------------------------------------------------------------------
(* NewClientFromKubeconfig called in every environment *)

InitClient ==
    /\ env \in Envs
    /\ version = NoVersion /\ pods = NoItems /\ nodes = NoItems
    /\ services = NoItems /\ ingresses = NoItems
    /\ pc = "call"
    /\ Idle

CallNewClientFromKubeconfig ==
    /\ pc = "call"
    /\ ret' = NewClientFromKubeconfig(env)
    /\ pc' = "returned"
    /\ UNCHANGED <<env, version, pods, nodes, services, ingresses, endpoints, calls, out>>

NextClient == CallNewClientFromKubeconfig

SpecClient == InitClient /\ [][NextClient]_vars

----------------------------------------------------------------------------
(* GetEtcdVersion called on every pod listing *)

InitEtcd ==
    /\ pods \in PodResponses
    /\ env = NoEnv /\ version = NoVersion /\ nodes = NoItems
    /\ services = NoItems /\ ingresses = NoItems
    /\ pc = "call"
    /\ Idle

CallGetEtcdVersion ==
    /\ pc = "call"
    /\ ret' = GetEtcdVersion(pods)
    /\ pc' = "returned"
    /\ UNCHANGED <<env, version, pods, nodes, services, ingresses, endpoints, calls, out>>

NextEtcd == CallGetEtcdVersion

SpecEtcd == InitEtcd /\ [][NextEtcd]_vars

----------------------------------------------------------------------------
(* GetNodeVersions called on every node listing *)

InitNodes ==
    /\ nodes \in NodeResponses
    /\ env = NoEnv /\ version = NoVersion /\ pods = NoItems
    /\ services = NoItems /\ ingresses = NoItems
    /\ pc = "call"
    /\ Idle

CallGetNodeVersions ==
    /\ pc = "call"
    /\ ret' \in GetNodeVersions(nodes)
    /\ pc' = "returned"
    /\ UNCHANGED <<env, version, pods, nodes, services, ingresses, endpoints, calls, out>>

NextNodes == CallGetNodeVersions

SpecNodes == InitNodes /\ [][NextNodes]_vars

----------------------------------------------------------------------------
(* GetExposedEndpoints, in its two halves, on service and ingress listings *)

\* ingress listings met with every service listing
FewIngressResponses == {ListFailure, NoItems,
    [Items |-> Named(<<[Rules |-> <<[Host |-> "", HTTP |-> HTTP(<<RootPath>>)]>>, Status |-> <<>>]>>), err |-> NoErr],
    [Items |-> Named(<<[Rules |-> <<[Host |-> "", HTTP |-> HTTP(<<BucketPath>>)]>>, Status |-> <<>>]>>), err |-> NoErr]}

\* service listings met with every ingress listing
FewServiceResponses == {ListFailure, NoItems,
    [Items |-> Named(<<[Type |-> "NodePort", Status |-> <<>>, Ports |-> <<HTTPPort>>]>>), err |-> NoErr]}

InitEndpoints ==
    /\ \/ services \in ServiceResponses /\ ingresses \in FewIngressResponses
       \/ services \in FewServiceResponses /\ ingresses \in IngressResponses
    /\ env = NoEnv /\ version = NoVersion /\ pods = NoItems /\ nodes = NoItems
    /\ pc = "call"
    /\ Idle

\* from the call to the end of the loop over the services
ListServices ==
    /\ pc = "call"
    /\ IF services.err # NoErr
       THEN /\ ret' = [val |-> <<>>, err |-> Errorf("failed to list services", "", services.err.msg)]
            /\ pc' = "returned"
            /\ UNCHANGED endpoints
       ELSE /\ endpoints' = ServiceEndpoints(services.Items)
            /\ pc' = "services-listed"
            /\ UNCHANGED ret
    /\ UNCHANGED <<env, version, pods, nodes, services, ingresses, calls, out>>

\* mutant: a failed ingress listing returns the service records with the error
ListIngresses_PartialOnError ==
    /\ pc = "services-listed"
    /\ IF ingresses.err # NoErr
       THEN /\ ret' = [val |-> endpoints, err |-> Errorf("failed to list ingresses", "", ingresses.err.msg)]
            /\ pc' = "returned"
            /\ UNCHANGED endpoints
       ELSE LET r == IngressLoop(ingresses.Items, endpoints)
            IN IF r.panic
               THEN /\ pc' = "panic"
                    /\ endpoints' = r.endpoints
                    /\ UNCHANGED ret
               ELSE /\ pc' = "returned"
                    /\ endpoints' = r.endpoints
                    /\ ret' = [val |-> r.endpoints, err |-> NoErr]
    /\ UNCHANGED <<env, version, pods, nodes, services, ingresses, calls, out>>

\* from the ingress listing to the return, or to the nil dereference
ListIngresses ==
    /\ pc = "services-listed"
    /\ IF ingresses.err # NoErr
       THEN /\ ret' = [val |-> <<>>, err |-> Errorf("failed to list ingresses", "", ingresses.err.msg)]
            /\ pc' = "returned"
            /\ UNCHANGED endpoints
       ELSE LET r == IngressLoop(ingresses.Items, endpoints)
            IN IF r.panic
               THEN /\ pc' = "panic"
                    /\ endpoints' = r.endpoints
                    /\ UNCHANGED ret
               ELSE /\ pc' = "returned"
                    /\ endpoints' = r.endpoints
                    /\ ret' = [val |-> r.endpoints, err |-> NoErr]
    /\ UNCHANGED <<env, version, pods, nodes, services, ingresses, calls, out>>

NextEndpoints == ListServices \/ ListIngresses

SpecEndpoints == InitEndpoints /\ [][NextEndpoints]_vars

----------------------------------------------------------------------------
(* main: one run against one cluster *)

MainEnvs == {e \in Envs : e.HOME = "" /\ ~e.inCluster /\ \A f \in ConfigFiles \ KubeconfigPaths : e.files[f] = "missing"}

MainPodResponses == {ListFailure, NoItems,
    [Items |-> <<[Name |-> "etcd-a", Containers |-> <<Container(<<"e", "t", "c", "d", ":", "3", ".", "5">>)>>]>>,
     err |-> NoErr]}

MainNodeResponses == {ListFailure, NoItems,
    [Items |-> <<Node(<<"v", "1", ".", "2">>), Node(<<"v", "1", ".", "3">>), Node(<<"v", "1", ".", "2">>)>>,
     err |-> NoErr]}

MainServiceResponses == {ListFailure,
    [Items |-> Named(<<[Type |-> "LoadBalancer", Status |-> <<IPPoint>>, Ports |-> <<HTTPPort>>],
                       [Type |-> "ClusterIP", Status |-> <<>>, Ports |-> <<HTTPPort>>]>>), err |-> NoErr]}

Init ==
    /\ env \in MainEnvs
    /\ version \in VersionResponses
    /\ pods \in MainPodResponses
    /\ nodes \in MainNodeResponses
    /\ services \in MainServiceResponses
    /\ ingresses \in FewIngressResponses
    /\ pc = "start"
    /\ Idle

Msg(op, text, arg) == [op |-> op, text |-> text, arg |-> arg]

\* clientset, err := NewClientFromKubeconfig(); fatal on error
Connect ==
    /\ pc = "start"
    /\ calls' = Append(calls, "NewClientFromKubeconfig")
    /\ LET r == NewClientFromKubeconfig(env)
       IN IF r.err # NoErr
          THEN /\ out' = out \o <<Msg("main", "Attempting to connect to Kubernetes cluster...", ""),
                                  Msg("NewClientFromKubeconfig", "Failed to create Kubernetes client", r.err)>>
               /\ pc' = "fatal"
          ELSE /\ out' = out \o <<Msg("main", "Attempting to connect to Kubernetes cluster...", ""),
                                  Msg("NewClientFromKubeconfig", "Successfully connected to Kubernetes cluster!", "")>>
               /\ pc' = "connected"
    /\ UNCHANGED <<env, version, pods, nodes, services, ingresses, ret, endpoints>>

\* mutant: a failed version query is reported and the run goes on
KubeVersion_NotFatal ==
    /\ pc = "connected"
    /\ calls' = Append(calls, "GetKubernetesAPIServerVersion")
    /\ LET r == GetKubernetesAPIServerVersion(version)
       IN IF r.err # NoErr
          THEN /\ out' = Append(out, Msg("GetKubernetesAPIServerVersion", "Failed to get Kubernetes version", r.err))
               /\ pc' = "version-reported"
          ELSE /\ out' = Append(out, Msg("GetKubernetesAPIServerVersion", "Kubernetes API server version", r.val))
               /\ pc' = "version-reported"
    /\ UNCHANGED <<env, version, pods, nodes, services, ingresses, ret, endpoints>>

\* kubeVersion, err := GetKubernetesAPIServerVersion(clientset); fatal on error
KubeVersion ==
    /\ pc = "connected"
    /\ calls' = Append(calls, "GetKubernetesAPIServerVersion")
    /\ LET r == GetKubernetesAPIServerVersion(version)
       IN IF r.err # NoErr
          THEN /\ out' = Append(out, Msg("GetKubernetesAPIServerVersion", "Failed to get Kubernetes version", r.err))
               /\ pc' = "fatal"
          ELSE /\ out' = Append(out, Msg("GetKubernetesAPIServerVersion", "Kubernetes API server version", r.val))
               /\ pc' = "version-reported"
    /\ UNCHANGED <<env, version, pods, nodes, services, ingresses, ret, endpoints>>

\* etcdVersion, err := GetEtcdVersion(clientset); a warning on error
EtcdVersion ==
    /\ pc = "version-reported"
    /\ calls' = Append(calls, "GetEtcdVersion")
    /\ LET r == GetEtcdVersion(pods)
       IN IF r.err # NoErr
          THEN out' = Append(out, Msg("GetEtcdVersion", "Could not get etcd version", r.err))
          ELSE out' = Append(out, Msg("GetEtcdVersion", "Detected etcd version", r.val))
    /\ pc' = "etcd-reported"
    /\ UNCHANGED <<env, version, pods, nodes, services, ingresses, ret, endpoints>>

\* nodeVersions, err := GetNodeVersions(clientset); a warning on error
NodeVersions ==
    /\ pc = "etcd-reported"
    /\ calls' = Append(calls, "GetNodeVersions")
    /\ \E r \in GetNodeVersions(nodes) :
          IF r.err # NoErr
          THEN out' = Append(out, Msg("GetNodeVersions", "Could not get node versions", r.err))
          ELSE out' = Append(out, Msg("GetNodeVersions", "Detected node versions", r.val))
    /\ pc' = "nodes-reported"
    /\ UNCHANGED <<env, version, pods, nodes, services, ingresses, ret, endpoints>>

\* the lines written for a successful aggregation
EndpointLines(list) ==
    <<Msg("GetExposedEndpoints", "Detected Exposed Endpoints:", "")>> \o
    (IF Len(list) = 0
     THEN <<Msg("GetExposedEndpoints", "  No exposed LoadBalancer, NodePort services, or Ingresses found.", "")>>
     ELSE [i \in 1..Len(list) |-> Msg("GetExposedEndpoints", "  - ", list[i])])

\* exposedEndpoints, err := GetExposedEndpoints(clientset); a warning on error;
\* a panic inside the call ends the process
ExposedEndpoints ==
    /\ pc = "nodes-reported"
    /\ calls' = Append(calls, "GetExposedEndpoints")
    /\ LET r == GetExposedEndpoints(services, ingresses)
       IN IF r.outcome = "panic"
          THEN /\ pc' = "panic"
               /\ UNCHANGED out
          ELSE /\ pc' = "done"
               /\ IF r.err # NoErr
                  THEN out' = Append(out, Msg("GetExposedEndpoints", "Could not get exposed endpoints", r.err))
                  ELSE out' = out \o EndpointLines(r.val)
    /\ UNCHANGED <<env, version, pods, nodes, services, ingresses, ret, endpoints>>

Next == Connect \/ KubeVersion \/ EtcdVersion \/ NodeVersions \/ ExposedEndpoints

Spec == Init /\ [][Next]_vars

----------------------------------------------------------------------------
(* Properties of main (under Spec) *)

ConnectFails == NewClientFromKubeconfig(env).err # NoErr
VersionFails == GetKubernetesAPIServerVersion(version).err # NoErr
LaterOps == {"GetEtcdVersion", "GetNodeVersions", "GetExposedEndpoints"}
ReportsOf(op) == {i \in 1..Len(out) : out[i].op = op}

\* C1: when obtaining the connection fails or the control-plane version
\* operation fails, the run stops there: once the failing operation has been
\* invoked the run is in its fatal end state, none of the later operations is
\* ever invoked and none of them has anything reported.
C1_FatalFailureEndsRun ==
    (ConnectFails \/ VersionFails) =>
        /\ \A i \in 1..Len(calls) : calls[i] \notin LaterOps
        /\ \A op \in LaterOps : ReportsOf(op) = {}
        /\ ConnectFails => /\ pc \in {"start", "fatal"}
                           /\ Len(calls) <= 1
                           /\ Len(calls) = 1 => pc = "fatal"
        /\ ~ConnectFails => /\ pc \in {"start", "connected", "fatal"}
                            /\ Len(calls) <= 2
                            /\ Len(calls) = 2 => pc = "fatal"

\* a run in which the connection succeeded and the version query failed and ended the run
C1_Witness ==
    /\ ~ConnectFails /\ VersionFails
    /\ pc = "fatal"
    /\ calls = <<"NewClientFromKubeconfig", "GetKubernetesAPIServerVersion">>

\* C2: when the connection and the control-plane version operation succeed,
\* the run never aborts, and it ends normally having invoked the consensus-store
\* version, node-agent versions and endpoint aggregation operations exactly once
\* each, in that order, each of them having reported its result or its failure.
C2_LaterOperationsAllRunOnce ==
    (~ConnectFails /\ ~VersionFails) =>
        /\ pc \notin {"fatal", "panic"}
        /\ \A i, j \in 1..Len(calls) : calls[i] = calls[j] => i = j
        /\ pc = "done" =>
              /\ calls = <<"NewClientFromKubeconfig", "GetKubernetesAPIServerVersion",
                           "GetEtcdVersion", "GetNodeVersions", "GetExposedEndpoints">>
              /\ \A op \in LaterOps : ReportsOf(op) # {}
              /\ Cardinality(ReportsOf("GetEtcdVersion")) = 1
              /\ Cardinality(ReportsOf("GetNodeVersions")) = 1

----------------------------------------------------------------------------
(* Properties of GetNodeVersions (under SpecNodes) *)

ReportedVersions == {nodes.Items[i].KubeletVersion : i \in 1..Len(nodes.Items)}

\* C3: with zero nodes listed the call fails with the no-nodes error; with
\* N >= 1 nodes reporting K distinct versions it succeeds and the returned
\* list, split at ", ", has exactly K entries, no entry twice, and the set of
\* its entries is the set of versions the nodes report.
C3_DistinctNodeVersions ==
    (pc = "returned" /\ nodes.err = NoErr) =>
        IF Len(nodes.Items) = 0
        THEN ret.err.msg = "no nodes found in the cluster" /\ ret.val = <<>>
        ELSE LET entries == Split(ret.val, CommaSpace)
             IN /\ ret.err = NoErr
                /\ Len(entries) = Cardinality(ReportedVersions)
                /\ \A i, j \in 1..Len(entries) : entries[i] = entries[j] => i = j
                /\ {entries[i] : i \in 1..Len(entries)} = ReportedVersions

\* three nodes reporting two distinct versions, and the call has returned
C3_Witness ==
    /\ pc = "returned" /\ ret.err = NoErr
    /\ Len(nodes.Items) = 3
    /\ Cardinality(ReportedVersions) = 2

----------------------------------------------------------------------------
(* Properties of GetEtcdVersion (under SpecEtcd) *)

FirstPodContainers == pods.Items[1].Containers
MatchingContainers == {i \in 1..Len(FirstPodContainers) : Contains(FirstPodContainers[i].Image, EtcdSubstr)}
FirstMatchingImage ==
    FirstPodContainers[CHOOSE i \in MatchingContainers : \A j \in MatchingContainers : i <= j].Image
ColonsOf(image) == {k \in 1..Len(image) : image[k] = ":"}
AfterLastColon(image) ==
    LET last == CHOOSE k \in ColonsOf(image) : \A l \in ColonsOf(image) : l <= k
    IN SubSeq(image, last + 1, Len(image))

\* C4: when the pod listing succeeds, the result is decided by the first
\* container of the first pod whose image contains "etcd": the part after its
\* last ':' is the version, or the malformed-image error when it has no ':';
\* with no matching container in the first pod, or no pod, the call fails
\* with a not-found error and returns no version.
C4_FirstMatchingContainerDecides ==
    (pc = "returned" /\ pods.err = NoErr) =>
        IF Len(pods.Items) = 0
        THEN ret.val = <<>> /\ ret.err.msg = "no etcd pods found in kube-system namespace"
        ELSE IF MatchingContainers = {}
             THEN /\ ret.val = <<>>
                  /\ ret.err.msg = "could not find etcd container in pod"
                  /\ ret.err.arg = pods.Items[1].Name
             ELSE IF ColonsOf(FirstMatchingImage) = {}
                  THEN /\ ret.val = <<>>
                       /\ ret.err.msg = "etcd container image does not have a discernible version tag"
                  ELSE ret.err = NoErr /\ ret.val = AfterLastColon(FirstMatchingImage)

\* two pods listed; in the first pod a non-matching container precedes a
\* matching one whose image has two colons; a version was returned
C4_Witness ==
    /\ pc = "returned" /\ ret.err = NoErr
    /\ Len(pods.Items) = 2
    /\ Len(FirstPodContainers) >= 2
    /\ 1 \notin MatchingContainers
    /\ Cardinality(ColonsOf(FirstMatchingImage)) = 2
    /\ ret.val = <<"3", ".", "5">>

----------------------------------------------------------------------------
(* Properties of GetExposedEndpoints (under SpecEndpoints) *)

ServicesListed == pc # "call" /\ services.err = NoErr
BothListed == pc \in {"returned", "panic"} /\ services.err = NoErr /\ ingresses.err = NoErr

\* the records of a list that render object `name` with format `kind`
RecordsOf(list, kind, name) == {j \in 1..Len(list) : list[j].kind = kind /\ list[j].Name = name}

Assigned(point) == point.IP # "" \/ point.Hostname # ""

\* what the claim prescribes for the address list of a load-balanced service
PrescribedAddrs(points) ==
    LET assigned == SelectSeq(points, Assigned)
    IN [k \in 1..Len(assigned) |-> IF assigned[k].IP # "" THEN assigned[k].IP ELSE assigned[k].Hostname]

LoadBalancerRule(list) ==
    \A i \in 1..Len(services.Items) :
        LET svc == services.Items[i]
            recs == RecordsOf(list, "Service (LoadBalancer)", svc.Name)
        IN svc.Spec.Type = "LoadBalancer" =>
              /\ Cardinality(recs) = (IF \E k \in 1..Len(svc.Spec.Status) : Assigned(svc.Spec.Status[k]) THEN 1 ELSE 0)
              /\ \A j \in recs : list[j].addrs = PrescribedAddrs(svc.Spec.Status)

\* C5: a LoadBalancer service contributes exactly one record when at least
\* one of its ingress points has a non-empty IP or hostname and none
\* otherwise; the record lists, per assigned point, the IP when non-empty and
\* the hostname only when the IP is empty.  This holds of the list built by
\* the service loop and of the list returned.
C5_LoadBalancerReportedWhenAssigned ==
    /\ ServicesListed => LoadBalancerRule(endpoints)
    /\ (pc = "returned" /\ ret.err = NoErr) => LoadBalancerRule(ret.val)

\* a returned list with a record for a service whose point carries both an IP
\* and a hostname (the IP is shown) next to a service with no assigned address
C5_Witness ==
    /\ pc = "returned" /\ ret.err = NoErr
    /\ \E i, j \in 1..Len(services.Items) :
          /\ services.Items[i].Spec.Type = "LoadBalancer"
          /\ services.Items[i].Spec.Status = <<BothPoint>>
          /\ \E r \in RecordsOf(ret.val, "Service (LoadBalancer)", i) : ret.val[r].addrs = <<"5.6.7.8">>
          /\ services.Items[j].Spec.Type = "LoadBalancer"
          /\ services.Items[j].Spec.Status = <<NoPoint>>
          /\ RecordsOf(ret.val, "Service (LoadBalancer)", j) = {}

ServiceKinds == {"Service (LoadBalancer)", "Service (NodePort)"}

NodePortRule(list) ==
    \A i \in 1..Len(services.Items) :
        LET svc == services.Items[i]
        IN /\ svc.Spec.Type = "NodePort" =>
                /\ Cardinality(RecordsOf(list, "Service (NodePort)", svc.Name)) = 1
                /\ RecordsOf(list, "Service (LoadBalancer)", svc.Name) = {}
           /\ svc.Spec.Type \notin {"LoadBalancer", "NodePort"} =>
                \A kind \in ServiceKinds : RecordsOf(list, kind, svc.Name) = {}

\* C6: every NodePort service contributes exactly one record whatever its
\* status and ports are; a service of any type other than LoadBalancer and
\* NodePort contributes no record, and a call whose two listings succeed
\* returns without an error whatever the service types are.
C6_NodePortAlwaysOthersNever ==
    /\ ServicesListed => NodePortRule(endpoints)
    /\ (pc = "returned" /\ ret.err = NoErr) => NodePortRule(ret.val)
    /\ (pc = "returned" /\ services.err = NoErr /\ ingresses.err = NoErr) => ret.err = NoErr

\* a returned list holding the record of a NodePort service with no port and
\* no address, next to a ClusterIP service that is not reported
C6_Witness ==
    /\ pc = "returned" /\ ret.err = NoErr
    /\ \E i, j \in 1..Len(services.Items) :
          /\ services.Items[i].Spec = [Type |-> "NodePort", Status |-> <<>>, Ports |-> <<>>]
          /\ Cardinality(RecordsOf(ret.val, "Service (NodePort)", i)) = 1
          /\ services.Items[j].Spec.Type = "ClusterIP"
          /\ Len(ret.val) = 1

RECURSIVE PathCount(_)
\* the number of paths under the rules of one ingress route
PathCount(rules) ==
    IF Len(rules) = 0 THEN 0
    ELSE (IF Head(rules).HTTP.nil THEN 0 ELSE Len(Head(rules).HTTP.Paths)) + PathCount(Tail(rules))

\* C7: once both listings have succeeded, for every ingress route listed
\* exactly one record has been emitted for every rule and every path of that
\* rule, whatever the route's status; the record shows host '*' for a rule
\* with an empty host and the rule's host otherwise.
C7_OneRecordPerIngressPath ==
    BothListed =>
        \A i \in 1..Len(ingresses.Items) :
            LET ing == ingresses.Items[i]
                recs == RecordsOf(endpoints, "Ingress", ing.Name)
            IN /\ Cardinality(recs) = PathCount(ing.Spec.Rules)
               /\ \A r \in 1..Len(ing.Spec.Rules) :
                     ~ing.Spec.Rules[r].HTTP.nil =>
                        \A p \in 1..Len(ing.Spec.Rules[r].HTTP.Paths) :
                            \E j \in recs :
                                /\ endpoints[j].Path = ing.Spec.Rules[r].HTTP.Paths[p].Path
                                /\ endpoints[j].Host = (IF ing.Spec.Rules[r].Host = "" THEN "*"
                                                        ELSE ing.Spec.Rules[r].Host)

\* C8: the call returns no partial result: when the service listing fails, or
\* the ingress listing fails after the service records were built, it returns
\* an error with an empty list; it returns a list (with no error) only when
\* both listings succeeded.
C8_NoPartialResult ==
    /\ pc = "returned" =>
          IF services.err # NoErr \/ ingresses.err # NoErr
          THEN ret.err # NoErr /\ ret.val = <<>>
          ELSE ret.err = NoErr /\ ret.val = endpoints
    /\ pc # "returned" => ret = NoRet

\* the ingress listing failed after service records had been built
C8_Witness ==
    /\ pc = "returned"
    /\ services.err = NoErr /\ ingresses.err # NoErr
    /\ Len(endpoints) > 0
    /\ ret.val = <<>> /\ ret.err.msg = "failed to list ingresses"

\* C10: for every successful service listing and ingress listing the call
\* completes by returning a record list with a nil error; it never aborts.
C10_TotalOverListings ==
    (services.err = NoErr /\ ingresses.err = NoErr) =>
        /\ pc # "panic"
        /\ pc = "returned" => ret.err = NoErr

----------------------------------------------------------------------------
(* Properties of NewClientFromKubeconfig (under SpecClient) *)

GotClient == ret.val # NilClient /\ ret.err = NoErr
GotError == ret.val = NilClient /\ ret.err # NoErr

====
